---- MODULE Spec2Model ----
(***************************************************************************)
(* A model of three parts of the repository:                               *)
(*   - the training / checkpointing loop of main()        (src/main.py)    *)
(*   - the tensor shapes of UNet.forward          (src/models/seg_model.py)*)
(*   - check_model_compatibility            (src/vp_suite/utils/utils.py)  *)
(* Each part has its own specification (Spec, SpecUNet, SpecCompat); the   *)
(* variables of the other parts stay at their idle values.                 *)
(***************************************************************************)
EXTENDS Integers, Sequences, FiniteSets, TLC

VARIABLES
    \* ---- main(): the training loop
    num_epochs,     \* NUM_EPOCHS of this run
    val_accs,       \* what get_accuracy returns in each epoch (tenths), 1-based
    pc,             \* the statement main() is at
    i,              \* the epoch index of `for i in range(0, NUM_EPOCHS)`
    batch_idx,      \* the batch index of the inner loop
    accuracy,       \* the local `accuracy`
    max_accuracy,   \* the local `max_accuracy`
    lr,             \* optimizer.param_groups[0]['lr'], in units of 1e-6
    params,         \* seg_model's parameters: the number of optimizer steps taken
    ckpt,           \* the file out_dir/best_model.pth
    best_model,     \* the local `best_model` of the testing part
    failure,        \* the unhandled exception that ended the run, or "none"
    writes,         \* history: the epochs in which torch.save was called
    decays,         \* history: how often the learning rate was scaled
    \* ---- UNet.forward
    upc,            \* the statement forward() is at
    features,       \* the `features` the network was constructed with
    out_channels,   \* the `out_channels` the network was constructed with
    input,          \* the shape of the input tensor
    x,              \* the shape of the local `x`
    skip_connections, \* the shapes in the local `skip_connections`
    level,          \* index of the `for down in self.downs` loop (0-based)
    ui,             \* the `i` of `for i in range(0, len(self.ups), 2)`
    stages,         \* history: one record per decoder stage that concatenated
    ferr,           \* the error forward() raised, or "none"
    training,       \* the network's mode: train() (the default) or eval()
    \* ---- check_model_compatibility
    cpc,            \* the section the call is at
    model_config,
    run_config,
    model,          \* the model object: can_handle_actions, min_context_frames
    strict_mode,
    model_preprocessing,
    model_postprocessing,
    outcome,        \* "none", "returned" or the error raised
    calls,          \* the number of calls started
    run_config0,    \* history: run_config as it was when the call started
    model_config0,  \* history: model_config as it was when the call started
    prev            \* history: the previous call's arguments and result

train_vars == <<num_epochs, val_accs, pc, i, batch_idx, accuracy, max_accuracy,
                lr, params, ckpt, best_model, failure, writes, decays>>
unet_vars == <<upc, features, out_channels, input, x, skip_connections, level,
               ui, stages, ferr, training>>
compat_vars == <<cpc, model_config, run_config, model, strict_mode,
                 model_preprocessing, model_postprocessing, outcome,
                 calls, run_config0, model_config0, prev>>
vars == <<train_vars, unet_vars, compat_vars>>

\* ------------------------------------------------------------------ bounds
MaxEpochs == 4      \* short runs have 0..MaxEpochs epochs
NumBatches == 2     \* batches the train loader yields per epoch

MaxDepth == 4       \* networks have 1..MaxDepth encoder levels
MaxSide == 17       \* input heights and widths 1..MaxSide (and a few large)
MaxCalls == 2       \* calls of check_model_compatibility on the same records

\* ------------------------------------------------------- program constants
NUM_EPOCHS == 20        \* config.py
LEARNING_RATE == 100    \* config.py: 1e-4, in units of 1e-6
DecayEpoch == 25        \* main.py: `if i == 25`
IN_CHANNELS == 3        \* main.py, seg_model.py: UNet(in_channels=3, ...)

\* accuracies a validation pass may report, in tenths (0.0 .. 1.0)
AccLevels == {0, 5, 6, 7, 9, 10}

NoModel == [epoch |-> -1, params |-> -1]
NoFile == [state |-> "none", epoch |-> -1, params |-> -1]

\* idle values of the other parts
UNetIdle ==
    /\ upc = "idle" /\ features = <<>> /\ out_channels = 0
    /\ input = <<0, 0, 0, 0>> /\ x = <<0, 0, 0, 0>> /\ skip_connections = <<>>
    /\ level = 0 /\ ui = 0 /\ stages = <<>> /\ ferr = "none"
    /\ training = TRUE
CompatIdle ==
    /\ cpc = "idle" /\ model_config = <<>> /\ run_config = <<>> /\ model = <<>>
    /\ strict_mode = FALSE /\ model_preprocessing = <<>>
    /\ model_postprocessing = <<>> /\ outcome = "none"
    /\ calls = 0 /\ run_config0 = <<>> /\ model_config0 = <<>> /\ prev = <<>>
TrainIdle ==
    /\ num_epochs = 0 /\ val_accs = <<>> /\ pc = "idle" /\ i = 0 /\ batch_idx = 0
    /\ accuracy = 0 /\ max_accuracy = 0 /\ lr = 0 /\ params = 0 /\ ckpt = NoFile
    /\ best_model = NoModel /\ failure = "none" /\ writes = <<>> /\ decays = 0

(***************************************************************************)
(* main(): src/main.py                                                     *)
(***************************************************************************)

\* The accuracies of a long run (20 or 30 epochs): a few trends.
LongProfiles(n) ==
    { [e \in 1..n |-> 0],
      [e \in 1..n |-> 9],
      [e \in 1..n |-> IF e % 2 = 0 THEN 5 ELSE 7],
      [e \in 1..n |-> e % 10],
      [e \in 1..n |-> 9 - (e % 10)],
      [e \in 1..n |-> IF e < 26 THEN 0 ELSE 6] }

\* line 64: `max_accuracy < accuracy`
ImprovedOrEqual(acc, best) == best <= acc
ImprovedOverZero(acc, best) == 0 < acc
Improved(acc, best) == best < acc

\* line 46: `for batch_idx, (data, targets) in enumerate(loop)`, b batches done
OneBatchOnly(b) == FALSE
MoreBatches(b) == b < NumBatches

\* line 72: `i == 25`
DecayDueEarly(e) == e = DecayEpoch - 1
DecayDue(e) == e = DecayEpoch

\* line 73: `lr *= 0.1`
Decayed(rate) == rate \div 10

\* lines 30-39: the state before the first epoch
TrainInit ==
    /\ \/ /\ num_epochs \in 0..MaxEpochs
          /\ val_accs \in [1..num_epochs -> AccLevels]
       \/ /\ num_epochs \in {NUM_EPOCHS, 30}
          /\ val_accs \in LongProfiles(num_epochs)
    /\ pc = "EpochStart"
    /\ i = 0
    /\ batch_idx = 0
    /\ accuracy = 0
    /\ max_accuracy = 0
    /\ lr = LEARNING_RATE
    /\ params = 0
    /\ ckpt = NoFile
    /\ best_model = NoModel
    /\ failure = "none"
    /\ writes = <<>>
    /\ decays = 0

\* line 42: the head of `for i in range(0, NUM_EPOCHS)`
EpochStart ==
    /\ pc = "EpochStart"
    /\ UNCHANGED <<unet_vars, compat_vars>>
    /\ pc' = IF i < num_epochs THEN "Forward" ELSE "FinalTesting"
    /\ batch_idx' = 0
    /\ UNCHANGED <<num_epochs, val_accs, i, accuracy, max_accuracy, lr, params,
                   ckpt, best_model, failure, writes, decays>>

\* line 50: predictions = seg_model(data)
Forward ==
    /\ pc = "Forward"
    /\ UNCHANGED <<unet_vars, compat_vars>>
    /\ pc' = "Loss"
    /\ UNCHANGED <<num_epochs, val_accs, i, batch_idx, accuracy, max_accuracy,
                   lr, params, ckpt, best_model, failure, writes, decays>>

\* line 51: loss = loss_fn.get_loss(predictions, targets)
Loss ==
    /\ pc = "Loss"
    /\ UNCHANGED <<unet_vars, compat_vars>>
    /\ pc' = "ZeroGrad"
    /\ UNCHANGED <<num_epochs, val_accs, i, batch_idx, accuracy, max_accuracy,
                   lr, params, ckpt, best_model, failure, writes, decays>>

\* line 53: optimizer.zero_grad()
ZeroGrad ==
    /\ pc = "ZeroGrad"
    /\ UNCHANGED <<unet_vars, compat_vars>>
    /\ pc' = "Backward"
    /\ UNCHANGED <<num_epochs, val_accs, i, batch_idx, accuracy, max_accuracy,
                   lr, params, ckpt, best_model, failure, writes, decays>>

\* line 54: loss.backward()
Backward ==
    /\ pc = "Backward"
    /\ UNCHANGED <<unet_vars, compat_vars>>
    /\ pc' = "OptStep"
    /\ UNCHANGED <<num_epochs, val_accs, i, batch_idx, accuracy, max_accuracy,
                   lr, params, ckpt, best_model, failure, writes, decays>>

\* lines 55-57 and the head of the batch loop (line 46)
OptStep ==
    /\ pc = "OptStep"
    /\ UNCHANGED <<unet_vars, compat_vars>>
    /\ params' = params + 1
    /\ batch_idx' = batch_idx + 1
    /\ pc' = IF MoreBatches(batch_idx + 1) THEN "Forward" ELSE "Validating"
    /\ UNCHANGED <<num_epochs, val_accs, i, accuracy, max_accuracy, lr, ckpt,
                   best_model, failure, writes, decays>>

\* lines 59-61: accuracy = get_accuracy(valid_loader, seg_model, DEVICE)
Validating ==
    /\ pc = "Validating"
    /\ UNCHANGED <<unet_vars, compat_vars>>
    /\ accuracy' = val_accs[i + 1]
    /\ pc' = "MaybeCheckpointing"
    /\ UNCHANGED <<num_epochs, val_accs, i, batch_idx, max_accuracy, lr, params,
                   ckpt, best_model, failure, writes, decays>>

\* lines 64-67, torch.save completing
MaybeCheckpointing ==
    /\ pc = "MaybeCheckpointing"
    /\ UNCHANGED <<unet_vars, compat_vars>>
    /\ IF Improved(accuracy, max_accuracy)
         THEN /\ max_accuracy' = accuracy
              /\ ckpt' = [state |-> "complete", epoch |-> i, params |-> params]
              /\ writes' = Append(writes, i)
         ELSE UNCHANGED <<max_accuracy, ckpt, writes>>
    /\ pc' = "Visualizing"
    /\ UNCHANGED <<num_epochs, val_accs, i, batch_idx, accuracy, lr, params,
                   best_model, failure, decays>>

\* lines 64-66, torch.save interrupted part-way (disk full, signal): the file
\* was opened for writing in place and is left with part of the new snapshot
SaveInterrupted ==
    /\ pc = "MaybeCheckpointing"
    /\ UNCHANGED <<unet_vars, compat_vars>>
    /\ Improved(accuracy, max_accuracy)
    /\ max_accuracy' = accuracy
    /\ ckpt' = [state |-> "partial", epoch |-> i, params |-> params]
    /\ writes' = Append(writes, i)
    /\ failure' = "save_interrupted"
    /\ pc' = "Aborted"
    /\ UNCHANGED <<num_epochs, val_accs, i, batch_idx, accuracy, lr, params,
                   best_model, decays>>

\* line 70: visualize(val_data, seg_model)
Visualizing ==
    /\ pc = "Visualizing"
    /\ UNCHANGED <<unet_vars, compat_vars>>
    /\ pc' = "LRSchedule"
    /\ UNCHANGED <<num_epochs, val_accs, i, batch_idx, accuracy, max_accuracy,
                   lr, params, ckpt, best_model, failure, writes, decays>>

\* lines 72-74, and the loop's step to the next i
LRSchedule ==
    /\ pc = "LRSchedule"
    /\ UNCHANGED <<unet_vars, compat_vars>>
    /\ IF DecayDue(i)
         THEN lr' = Decayed(lr) /\ decays' = decays + 1
         ELSE UNCHANGED <<lr, decays>>
    /\ i' = i + 1
    /\ pc' = "EpochStart"
    /\ UNCHANGED <<num_epochs, val_accs, batch_idx, accuracy, max_accuracy,
                   params, ckpt, best_model, failure, writes>>

\* line 78: best_model = torch.load(out_dir / 'best_model.pth')
FinalTesting ==
    /\ pc = "FinalTesting"
    /\ UNCHANGED <<unet_vars, compat_vars>>
    /\ IF ckpt.state = "complete"
         THEN /\ best_model' = [epoch |-> ckpt.epoch, params |-> ckpt.params]
              /\ pc' = "TestVisualizing"
              /\ UNCHANGED failure
         ELSE /\ failure' = IF ckpt.state = "none" THEN "FileNotFoundError"
                                                   ELSE "UnpicklingError"
              /\ pc' = "Aborted"
              /\ UNCHANGED best_model
    /\ UNCHANGED <<num_epochs, val_accs, i, batch_idx, accuracy, max_accuracy,
                   lr, params, ckpt, writes, decays>>

\* lines 79-80: visualize(test_data, best_model)
TestVisualizing ==
    /\ pc = "TestVisualizing"
    /\ UNCHANGED <<unet_vars, compat_vars>>
    /\ pc' = "Done"
    /\ UNCHANGED <<num_epochs, val_accs, i, batch_idx, accuracy, max_accuracy,
                   lr, params, ckpt, best_model, failure, writes, decays>>

Init == TrainInit /\ UNetIdle /\ CompatIdle

Next ==
    \/ EpochStart
    \/ Forward
    \/ Loss
    \/ ZeroGrad
    \/ Backward
    \/ OptStep
    \/ Validating
    \/ MaybeCheckpointing
    \/ SaveInterrupted
    \/ Visualizing
    \/ LRSchedule
    \/ FinalTesting
    \/ TestVisualizing

Spec == Init /\ [][Next]_vars

(***************************************************************************)
(* UNet: src/models/seg_model.py.  A tensor is its shape <<B, C, H, W>>.   *)
(***************************************************************************)
RECURSIVE Pow2(_)
Pow2(n) == IF n = 0 THEN 1 ELSE 2 * Pow2(n - 1)

\* feature lists a network is constructed with: the default's widths cut
\* to 1..MaxDepth levels, and lists whose widths do not double
FeatureLists ==
    { [k \in 1..d |-> 64 * Pow2(k - 1)] : d \in 1..MaxDepth }
    \cup { <<2, 4>>, <<64, 100>>, <<8, 16, 24>> }

Sides == (1..MaxSide) \cup {93, 124, 256}

Depth == Len(features)

\* __init__, lines 16-18: downs[k] (k 1-based) is DoubleConv(DownIn, DownOut)
DownIn(k) == IF k = 1 THEN IN_CHANNELS ELSE features[k - 1]
DownOut(k) == features[k]
\* __init__, lines 20-22: the feature of decoder stage j (0-based), from
\* reversed(features); ups[2j] is ConvTranspose2d(2f, f), ups[2j+1] is
\* DoubleConv(2f, f)
UpFeature(j) == features[Depth - j]
\* __init__, line 24: bottleneck is DoubleConv(features[-1], features[-1]*2)
BottleneckIn == features[Depth]
BottleneckOutSameWidth == features[Depth]
BottleneckOut == features[Depth] * 2
\* __init__, line 25: final_conv is Conv2d(features[0], out_channels, 1)
FinalIn == features[1]

\* DoubleConv, lines 58-68: Conv2d wants in_c channels; BatchNorm2d
\* in training mode wants more than one value per channel
DoubleConvErr(in_c, s, train_mode) ==
    IF s[2] # in_c THEN "channels"
    ELSE IF train_mode /\ s[1] * s[3] * s[4] = 1 THEN "batchnorm"
    ELSE "none"
\* 3x3 convolutions with padding 1 and stride 1 keep height and width
DoubleConvOut(out_c, s) == <<s[1], out_c, s[3], s[4]>>

\* line 14: MaxPool2d(kernel_size=2, stride=2): floor(H/2) x floor(W/2), and
\* an error for an empty output
PoolErr(s) == IF s[3] \div 2 = 0 \/ s[4] \div 2 = 0 THEN "pool" ELSE "none"
Pool(s) == <<s[1], s[2], s[3] \div 2, s[4] \div 2>>

\* line 21: ConvTranspose2d(2f, f, kernel_size=2, stride=2): 2H x 2W
UpConvErr(in_c, s) == IF s[2] # in_c THEN "channels" ELSE "none"
UpConv(out_c, s) == <<s[1], out_c, 2 * s[3], 2 * s[4]>>

\* line 41: skip_connections[::-1]
NotReversed(seq) == seq
Reversed(seq) == [k \in 1..Len(seq) |-> seq[Len(seq) + 1 - k]]

\* line 44: skip_connections[i//2]
SkipFor(skips, idx) == skips[idx \div 2 + 1]

\* line 46: x.shape != skip_connection.shape
NeverDiffers(a, b) == FALSE
ShapeDiffers(a, b) == a # b

\* line 47: TF.resize(x, size=skip_connection.shape[2:])
Resize(s, size) == <<s[1], s[2], size[1], size[2]>>

\* line 49: torch.cat((skip_connection, x), dim=1)
CatErr(a, b) ==
    IF a[1] # b[1] \/ a[3] # b[3] \/ a[4] # b[4] THEN "cat" ELSE "none"
Cat(a, b) == <<a[1], a[2] + b[2], a[3], a[4]>>

\* lines 25, 53: Conv2d(features[0], out_channels, kernel_size=1)
FinalConvErr(s) == IF s[2] # FinalIn THEN "channels" ELSE "none"
FinalConv(s) == <<s[1], out_channels, s[3], s[4]>>

\* a constructed network and an input tensor, before forward() runs
UNetInit ==
    /\ features \in FeatureLists
    /\ out_channels \in {1, 22}
    /\ training \in BOOLEAN
    /\ input \in {<<b, IN_CHANNELS, h, w>> : b \in {1, 8}, h \in Sides, w \in Sides}
    /\ x = input
    /\ skip_connections = <<>>
    /\ level = 0
    /\ ui = 0
    /\ stages = <<>>
    /\ ferr = "none"
    /\ upc = "Down"

\* lines 32-35: one pass of `for down in self.downs`
Down ==
    /\ upc = "Down"
    /\ level < Depth
    /\ UNCHANGED <<train_vars, compat_vars>>
    /\ LET e1 == DoubleConvErr(DownIn(level + 1), x, training)
           y == DoubleConvOut(DownOut(level + 1), x)
           e2 == PoolErr(y)
       IN  IF e1 # "none"
             THEN /\ ferr' = e1 /\ upc' = "Raised"
                  /\ UNCHANGED <<x, skip_connections, level>>
           ELSE IF e2 # "none"
             THEN /\ ferr' = e2 /\ upc' = "Raised"
                  /\ x' = y
                  /\ skip_connections' =
                        Append(skip_connections, [lvl |-> level, shape |-> y])
                  /\ UNCHANGED level
           ELSE /\ x' = Pool(y)
                /\ skip_connections' =
                      Append(skip_connections, [lvl |-> level, shape |-> y])
                /\ level' = level + 1
                /\ UNCHANGED <<ferr, upc>>
    /\ UNCHANGED <<features, out_channels, training, input, ui, stages>>

\* line 38: x = self.bottleneck(x), once the downs are exhausted
Bottleneck ==
    /\ upc = "Down"
    /\ level = Depth
    /\ UNCHANGED <<train_vars, compat_vars>>
    /\ LET e == DoubleConvErr(BottleneckIn, x, training)
       IN  IF e # "none"
             THEN ferr' = e /\ upc' = "Raised" /\ UNCHANGED x
             ELSE /\ x' = DoubleConvOut(BottleneckOut, x)
                  /\ upc' = "Reverse"
                  /\ UNCHANGED ferr
    /\ UNCHANGED <<features, out_channels, training, input, skip_connections,
                   level, ui, stages>>

\* line 41: skip_connections = skip_connections[::-1]
ReverseSkips ==
    /\ upc = "Reverse"
    /\ UNCHANGED <<train_vars, compat_vars>>
    /\ skip_connections' = Reversed(skip_connections)
    /\ ui' = 0
    /\ upc' = "Up"
    /\ UNCHANGED <<features, out_channels, training, input, x, level, stages,
                   ferr>>

\* lines 42-50: one pass of `for i in range(0, len(self.ups), 2)`
UpStage ==
    /\ upc = "Up"
    /\ ui < 2 * Depth
    /\ UNCHANGED <<train_vars, compat_vars>>
    /\ LET f == UpFeature(ui \div 2)
           e1 == UpConvErr(2 * f, x)
           up == UpConv(f, x)
           skip == SkipFor(skip_connections, ui)
           differs == ShapeDiffers(up, skip.shape)
           xr == IF differs THEN Resize(up, <<skip.shape[3], skip.shape[4]>>)
                            ELSE up
           e2 == CatErr(skip.shape, xr)
           concat_skip == Cat(skip.shape, xr)
           e3 == DoubleConvErr(2 * f, concat_skip, training)
           stage == [j |-> ui \div 2, lvl |-> skip.lvl, skip |-> skip.shape,
                     up |-> up, resized |-> differs, x |-> xr,
                     cat |-> concat_skip]
       IN  IF e1 # "none"
             THEN /\ ferr' = e1 /\ upc' = "Raised"
                  /\ UNCHANGED <<x, ui, stages>>
           ELSE IF e2 # "none"
             THEN /\ ferr' = e2 /\ upc' = "Raised"
                  /\ x' = xr
                  /\ stages' = Append(stages, stage)
                  /\ UNCHANGED ui
           ELSE IF e3 # "none"
             THEN /\ ferr' = e3 /\ upc' = "Raised"
                  /\ x' = xr
                  /\ stages' = Append(stages, stage)
                  /\ UNCHANGED ui
           ELSE /\ x' = DoubleConvOut(f, concat_skip)
                /\ stages' = Append(stages, stage)
                /\ ui' = ui + 2
                /\ UNCHANGED <<ferr, upc>>
    /\ UNCHANGED <<features, out_channels, training, input, skip_connections,
                   level>>

\* line 53: return self.final_conv(x), once the ups are exhausted
Final ==
    /\ upc = "Up"
    /\ ui = 2 * Depth
    /\ UNCHANGED <<train_vars, compat_vars>>
    /\ LET e == FinalConvErr(x)
       IN  IF e # "none"
             THEN ferr' = e /\ upc' = "Raised" /\ UNCHANGED x
             ELSE x' = FinalConv(x) /\ upc' = "Returned" /\ UNCHANGED ferr
    /\ UNCHANGED <<features, out_channels, training, input, skip_connections,
                   level, ui, stages>>

InitUNet == UNetInit /\ TrainIdle /\ CompatIdle

NextUNet ==
    \/ Down
    \/ Bottleneck
    \/ ReverseSkips
    \/ UpStage
    \/ Final

SpecUNet == InitUNet /\ [][NextUNet]_vars

(***************************************************************************)
(* check_model_compatibility: src/vp_suite/utils/utils.py                  *)
(***************************************************************************)
\* Python's None, for a context_frames / pred_frames that is not given
None == -1
ValueRanges == {<<0, 1>>, <<-1, 1>>}

ModelConfigs ==
    [tensor_value_range : ValueRanges, use_actions : BOOLEAN, action_size : {2},
     img_shape : {<<3, 64, 64>>}, context_frames : {1, 2}, pred_frames : {5}]
RunConfigs ==
    [tensor_value_range : ValueRanges, use_actions : BOOLEAN,
     action_size : {2, 3},
     img_shape : {<<c, h, w>> : c \in {1, 3}, h \in {64, 128}, w \in {64, 128}},
     context_frames : {None, 1, 2}, pred_frames : {None, 3}]
Models == [can_handle_actions : BOOLEAN, min_context_frames : {1, 2}]

\* lines 66-70, 79-83, and torchvision's Resize: the adapter modules
ScaleToModel(m, t) == [op |-> "ScaleToModel", model_range |-> m, test_range |-> t]
ScaleToTest(m, t) == [op |-> "ScaleToTest", model_range |-> m, test_range |-> t]
ResizeTo(h, w) == [op |-> "Resize", size |-> <<h, w>>]

\* line 111: model_value_range != test_value_range
RangeDiffers(m, t) == m # t
\* line 139: model_c != test_c
ChannelsDiffer(m, t) == m[1] # t[1]
\* line 142: model_h != test_h or model_w != test_w
HeightDiffers(m, t) == m[2] # t[2]
SizeDiffers(m, t) == m[2] # t[2] \/ m[3] # t[3]

\* lines 149-150: a missing context_frames is taken from the model's config
FilledContext(rc, mc) == [rc EXCEPT !.context_frames = mc.context_frames]
\* lines 155-156: a missing pred_frames is taken from the model's config
FilledPredWrongField(rc, mc) ==
    IF rc.pred_frames = None
      THEN [rc EXCEPT !.pred_frames = mc.context_frames] ELSE rc
FilledPred(rc, mc) ==
    IF rc.pred_frames = None
      THEN [rc EXCEPT !.pred_frames = mc.pred_frames] ELSE rc

\* the caller's records and the model, before any call
CompatInit ==
    /\ model_config \in ModelConfigs
    /\ run_config \in RunConfigs
    /\ model \in Models
    /\ strict_mode = FALSE
    /\ model_preprocessing = <<>>
    /\ model_postprocessing = <<>>
    /\ outcome = "none"
    /\ calls = 0
    /\ run_config0 = run_config
    /\ model_config0 = model_config
    /\ prev = <<>>
    /\ cpc = "ready"

\* lines 98-106: the call, with the records as they now are
Call ==
    /\ cpc \in {"ready", "done"}
    /\ calls < MaxCalls
    /\ UNCHANGED <<train_vars, unet_vars>>
    /\ strict_mode' \in BOOLEAN
    /\ model_preprocessing' = <<>>
    /\ model_postprocessing' = <<>>
    /\ outcome' = "none"
    /\ calls' = calls + 1
    /\ run_config0' = run_config
    /\ model_config0' = model_config
    /\ prev' = IF cpc = "done"
                 THEN <<[run_config |-> run_config0, model_config |-> model_config0,
                         strict_mode |-> strict_mode, outcome |-> outcome,
                         pre |-> model_preprocessing,
                         post |-> model_postprocessing]>>
                 ELSE <<>>
    /\ cpc' = "ValueRange"
    /\ UNCHANGED <<model_config, run_config, model>>

\* lines 108-115: value range
CheckValueRange ==
    /\ cpc = "ValueRange"
    /\ UNCHANGED <<train_vars, unet_vars>>
    /\ LET model_value_range == model_config.tensor_value_range
           test_value_range == run_config.tensor_value_range
       IN  IF RangeDiffers(model_value_range, test_value_range)
             THEN IF strict_mode
                    THEN /\ outcome' = "ValueError_value_range"
                         /\ cpc' = "done"
                         /\ UNCHANGED <<model_preprocessing, model_postprocessing>>
                    ELSE /\ model_preprocessing' =
                              Append(model_preprocessing,
                                     ScaleToModel(model_value_range, test_value_range))
                         /\ model_postprocessing' =
                              Append(model_postprocessing,
                                     ScaleToTest(model_value_range, test_value_range))
                         /\ cpc' = "Actions"
                         /\ UNCHANGED outcome
             ELSE /\ cpc' = "Actions"
                  /\ UNCHANGED <<model_preprocessing, model_postprocessing, outcome>>
    /\ UNCHANGED <<model_config, run_config, model, strict_mode, calls,
                   run_config0, model_config0, prev>>

\* lines 117-134: action conditioning
CheckActions ==
    /\ cpc = "Actions"
    /\ UNCHANGED <<train_vars, unet_vars>>
    /\ LET mdl_ac == model_config.use_actions
           run_ac == run_config.use_actions
           err == IF model.can_handle_actions
                    THEN IF mdl_ac
                           THEN IF ~run_ac THEN "ValueError_needs_actions"
                                ELSE IF model_config.action_size
                                          # run_config.action_size
                                       THEN "AssertionError_action_size"
                                       ELSE "none"
                           ELSE IF run_ac THEN "ValueError_no_actions"
                                ELSE "none"
                    ELSE "none"
       IN  IF err # "none"
             THEN outcome' = err /\ cpc' = "done"
             ELSE cpc' = "ImgShape" /\ UNCHANGED outcome
    /\ UNCHANGED <<model_config, run_config, model, strict_mode,
                   model_preprocessing, model_postprocessing, calls,
                   run_config0, model_config0, prev>>

\* lines 136-146: img_shape
CheckImgShape ==
    /\ cpc = "ImgShape"
    /\ UNCHANGED <<train_vars, unet_vars>>
    /\ LET m == model_config.img_shape
           t == run_config.img_shape
       IN  IF ChannelsDiffer(m, t)
             THEN /\ outcome' = "ValueError_channels"
                  /\ cpc' = "done"
                  /\ UNCHANGED <<model_preprocessing, model_postprocessing>>
           ELSE IF SizeDiffers(m, t)
             THEN IF strict_mode
                    THEN /\ outcome' = "ValueError_img_size"
                         /\ cpc' = "done"
                         /\ UNCHANGED <<model_preprocessing, model_postprocessing>>
                    ELSE /\ model_preprocessing' =
                              Append(model_preprocessing, ResizeTo(m[2], m[3]))
                         /\ model_postprocessing' =
                              Append(model_postprocessing, ResizeTo(t[2], t[3]))
                         /\ cpc' = "Frames"
                         /\ UNCHANGED outcome
           ELSE /\ cpc' = "Frames"
                /\ UNCHANGED <<model_preprocessing, model_postprocessing, outcome>>
    /\ UNCHANGED <<model_config, run_config, model, strict_mode, calls,
                   run_config0, model_config0, prev>>

\* lines 148-156: context frames and prediction horizon
CheckFrames ==
    /\ cpc = "Frames"
    /\ UNCHANGED <<train_vars, unet_vars>>
    /\ IF run_config.context_frames = None
         THEN /\ run_config' = FilledPred(FilledContext(run_config, model_config),
                                          model_config)
              /\ cpc' = "Finalize"
              /\ UNCHANGED outcome
       ELSE IF run_config.context_frames < model.min_context_frames
         THEN /\ outcome' = "ValueError_context_frames"
              /\ cpc' = "done"
              /\ UNCHANGED run_config
       ELSE /\ run_config' = FilledPred(run_config, model_config)
            /\ cpc' = "Finalize"
            /\ UNCHANGED outcome
    /\ UNCHANGED <<model_config, model, strict_mode, model_preprocessing,
                   model_postprocessing, calls, run_config0, model_config0, prev>>

\* lines 158-161: nn.Sequential(*...) of both lists, and the return
Finalize ==
    /\ cpc = "Finalize"
    /\ UNCHANGED <<train_vars, unet_vars>>
    /\ outcome' = "returned"
    /\ cpc' = "done"
    /\ UNCHANGED <<model_config, run_config, model, strict_mode,
                   model_preprocessing, model_postprocessing, calls,
                   run_config0, model_config0, prev>>

InitCompat == CompatInit /\ TrainIdle /\ UNetIdle

NextCompat ==
    \/ Call
    \/ CheckValueRange
    \/ CheckActions
    \/ CheckImgShape
    \/ CheckFrames
    \/ Finalize

SpecCompat == InitCompat /\ [][NextCompat]_vars

(***************************************************************************)
(* Properties of main()                                                    *)
(***************************************************************************)
Max(S) == CHOOSE m \in S : \A y \in S : y <= m
Min(S) == CHOOSE m \in S : \A y \in S : m <= y

TrainingPCs == {"Forward", "Loss", "ZeroGrad", "Backward", "OptStep"}

\* the number of epochs whose checkpoint decision has been taken
EpochsChecked == IF pc \in {"Visualizing", "LRSchedule"} THEN i + 1 ELSE i
Seen == {val_accs[e] : e \in 1..EpochsChecked}
BestSeen == Max({0} \cup Seen)
\* the earliest epoch (0-based) whose accuracy is the best seen
FirstBest == Min({e \in 1..EpochsChecked : val_accs[e] = BestSeen}) - 1

C1_BestIsMaxSeen ==
    failure # "save_interrupted" =>
        /\ max_accuracy = BestSeen
        /\ ckpt.state = "complete" =>
              /\ ckpt.epoch = FirstBest
              /\ ckpt.params = (FirstBest + 1) * NumBatches

\* C1: after each epoch's checkpoint decision best-so-far is the maximum of 0
\* and every accuracy observed so far, it never decreases, and an existing
\* checkpoint is the model as it was after the earliest epoch that reached
\* that maximum.
C1_CheckpointIsEarliestBest ==
    /\ []C1_BestIsMaxSeen
    /\ [][max_accuracy' >= max_accuracy]_vars

\* a later epoch repeated the best accuracy and the checkpoint is the earlier one
C1_Witness ==
    /\ pc = "Done"
    /\ \E e1, e2 \in 1..num_epochs :
          /\ e1 < e2
          /\ val_accs[e1] = max_accuracy
          /\ val_accs[e2] = max_accuracy
          /\ ckpt.epoch = e1 - 1
          /\ best_model.params = e1 * NumBatches

\* C2: torch.save is called in an epoch exactly when that epoch's accuracy
\* is strictly greater than best-so-far at the checkpoint decision, and
\* otherwise best-so-far and the file stay as they are; the accuracies
\* 0.5, 0.7, 0.6, 0.9 give writes in epochs 0, 1, 3 and a final best of 0.9.
C2_WriteIffStrictlyBetter ==
    /\ [][ /\ writes' # writes => pc = "MaybeCheckpointing"
           /\ ckpt' # ckpt => writes' # writes
           /\ pc = "MaybeCheckpointing" =>
                /\ (writes' = Append(writes, i)) <=> (accuracy > max_accuracy)
                /\ ~(accuracy > max_accuracy) =>
                     UNCHANGED <<writes, ckpt, max_accuracy>> ]_vars
    /\ [](val_accs = <<5, 7, 6, 9>> /\ pc = "Done" =>
             writes = <<0, 1, 3>> /\ max_accuracy = 9)

C2_Witness ==
    /\ val_accs = <<5, 7, 6, 9>>
    /\ pc = "Done"
    /\ writes = <<0, 1, 3>>
    /\ failure = "none"

\* C3 as stated: in a 30-epoch run the training batches of epochs 0..24 run
\* at the initial rate and those of epochs 25..29 at a tenth of it, with
\* exactly one decay in the run.
C3_DecayBeforeEpoch25 ==
    num_epochs = 30 =>
        /\ pc \in TrainingPCs =>
              lr = IF i <= 24 THEN LEARNING_RATE ELSE Decayed(LEARNING_RATE)
        /\ pc = "Done" => decays = 1

\* C3 (amended): in a 30-epoch run the training batches of epochs 0..25 run
\* at the initial rate and those of epochs 26..29 at a tenth of it, with
\* exactly one decay in the run, whatever the accuracies.
C3_DecayAfterEpoch25 ==
    num_epochs = 30 =>
        /\ pc \in TrainingPCs =>
              lr = IF i <= DecayEpoch THEN LEARNING_RATE
                                      ELSE Decayed(LEARNING_RATE)
        /\ pc \in {"FinalTesting", "TestVisualizing", "Done"} => decays = 1
        /\ decays <= 1

C3_Witness ==
    /\ num_epochs = 30
    /\ pc = "OptStep"
    /\ i = DecayEpoch + 1
    /\ lr = Decayed(LEARNING_RATE)
    /\ decays = 1

\* C4: with at least one epoch and no storage failure, the run reaches the
\* testing part, finds a checkpoint to load there and does not abort.
C4_FinalTestingFindsCheckpoint ==
    (num_epochs >= 1 /\ failure # "save_interrupted") =>
        /\ pc = "FinalTesting" => ckpt.state = "complete"
        /\ pc # "Aborted"

\* C5: best_model.pth never holds a partially written checkpoint, also
\* after a write that was interrupted.
C5_NoPartialCheckpoint ==
    ckpt.state \in {"none", "complete"}

StepOrder ==
    { <<"EpochStart", "Forward">>, <<"Forward", "Loss">>, <<"Loss", "ZeroGrad">>,
      <<"ZeroGrad", "Backward">>, <<"Backward", "OptStep">>,
      <<"OptStep", "Forward">>, <<"OptStep", "Validating">>,
      <<"Validating", "MaybeCheckpointing">>,
      <<"MaybeCheckpointing", "Visualizing">>, <<"Visualizing", "LRSchedule">>,
      <<"LRSchedule", "EpochStart">>, <<"EpochStart", "FinalTesting">>,
      <<"FinalTesting", "TestVisualizing">>, <<"TestVisualizing", "Done">>,
      <<"MaybeCheckpointing", "Aborted">>, <<"FinalTesting", "Aborted">> }

\* C7: the steps come in a fixed order: every batch of an epoch (forward,
\* loss, zero gradients, backward, optimizer step) is done before that
\* epoch's validation, validation before the checkpoint decision, that
\* before visualization, the next epoch's training after visualization,
\* the testing part after the last epoch; parameters change only in the
\* optimizer step of training.
C7_FixedStepOrder ==
    [][ /\ pc' # pc => <<pc, pc'>> \in StepOrder
        /\ pc' = "Validating" /\ pc # "Validating" =>
              /\ batch_idx' = NumBatches
              /\ params' = (i + 1) * NumBatches
              /\ i' = i
        /\ pc' = "Forward" /\ pc = "EpochStart" =>
              /\ params = i * NumBatches
              /\ i < num_epochs
        /\ pc' = "FinalTesting" /\ pc # "FinalTesting" =>
              /\ i = num_epochs
              /\ params = num_epochs * NumBatches
        /\ i' # i => pc = "LRSchedule" /\ i' = i + 1
        /\ params' # params => pc = "OptStep" ]_vars

C7_Witness ==
    /\ pc = "Done"
    /\ num_epochs = 3
    /\ params = 3 * NumBatches

(***************************************************************************)
(* Properties of UNet.forward                                              *)
(***************************************************************************)
\* each width is twice the one before, as in the default [64,128,256,512]
Doubling == \A k \in 2..Depth : features[k] = 2 * features[k - 1]
\* H, W >= 2^d
BigEnough == input[3] >= Pow2(Depth) /\ input[4] >= Pow2(Depth)
\* training mode and one value per channel at the bottleneck
OneValuePerChannel ==
    /\ training
    /\ input[1] * (input[3] \div Pow2(Depth)) * (input[4] \div Pow2(Depth)) = 1
ExpectedOutput == <<input[1], out_channels, input[3], input[4]>>

\* C6 as stated: for every depth d, class count K and input (B, 3, H, W)
\* with H, W >= 2^d, forward() returns a tensor of shape (B, K, H, W).
C6_OutputShapeAlways ==
    BigEnough =>
        /\ upc # "Raised"
        /\ upc = "Returned" => x = ExpectedOutput

\* C6 (amended): for every depth d whose feature widths double from level
\* to level, class count K and input (B, 3, H, W) with H, W >= 2^d,
\* forward() returns a tensor of shape (B, K, H, W), whether or not H and W
\* are divisible by 2^d, unless the network is in training mode and the
\* bottleneck sees one value per channel (B * (H div 2^d) * (W div 2^d) = 1).
C6_OutputShape ==
    (BigEnough /\ Doubling /\ ~OneValuePerChannel) =>
        /\ upc # "Raised"
        /\ upc = "Returned" => x = ExpectedOutput

\* 93 x 124 through a depth-4 network: returned, one stage at least resized
C6_Witness ==
    /\ upc = "Returned"
    /\ Depth = 4
    /\ input[3] = 93 /\ input[4] = 124
    /\ x = <<input[1], out_channels, 93, 124>>
    /\ \E k \in 1..Len(stages) : stages[k].resized

\* the encoder's output at level l (0-based)
EncoderShape(l) ==
    <<input[1], features[l + 1], input[3] \div Pow2(l), input[4] \div Pow2(l)>>

\* C10: decoder stage j concatenates with the skip connection of encoder
\* level d-1-j; at the concatenation the upsampled tensor has that skip
\* connection's height and width; it was resized exactly when its shape
\* differed from the skip connection's, which is exactly when the skip
\* connection's height or width is odd, and is the upsampling's output
\* otherwise.
C10_StagePairsWithMirroredSkip ==
    \A k \in 1..Len(stages) :
        LET st == stages[k] IN
        /\ st.j = k - 1
        /\ st.lvl = Depth - 1 - st.j
        /\ st.skip = EncoderShape(st.lvl)
        /\ st.x[3] = st.skip[3] /\ st.x[4] = st.skip[4]
        /\ st.resized <=> st.up # st.skip
        /\ st.resized <=> (st.skip[3] % 2 = 1 \/ st.skip[4] % 2 = 1)
        /\ ~st.resized => st.x = st.up

C10_Witness ==
    /\ upc = "Returned"
    /\ Depth >= 3
    /\ Len(stages) = Depth
    /\ \E a, b \in 1..Len(stages) : stages[a].resized /\ ~stages[b].resized

\* the channel widths along forward(), at the points the pass has reached
ChannelsConsistent ==
    /\ ferr # "channels"
    \* the bottleneck receives the deepest width and emits twice that width
    /\ (upc = "Down" /\ level = Depth) => x[2] = features[Depth]
    /\ upc = "Reverse" => x[2] = 2 * features[Depth]
    \* the upsampling layer of stage j receives twice the stage's width
    /\ (upc = "Up" /\ ui < 2 * Depth) => x[2] = 2 * UpFeature(ui \div 2)
    \* it emits the stage's width, the concatenation has twice that width,
    \* and that width is the encoder's at the mirrored level
    /\ \A k \in 1..Len(stages) :
          LET st == stages[k]
              f == UpFeature(st.j)
          IN  /\ st.up[2] = f
              /\ st.x[2] = f
              /\ st.skip[2] = f
              /\ st.cat[2] = 2 * f
              /\ f = features[Depth - st.j]
              /\ st.lvl = Depth - 1 - st.j
    \* the FeatureBlock after the concatenation gives the stage's width
    /\ (upc = "Up" /\ ui > 0) => x[2] = UpFeature(ui \div 2 - 1)
    \* the head receives the first level's width
    /\ (upc = "Up" /\ ui = 2 * Depth) => x[2] = features[1]
    /\ upc = "Returned" => x[2] = out_channels

StrictlyIncreasing == \A k \in 2..Depth : features[k] > features[k - 1]

\* C11 as stated: for every list of strictly increasing feature widths the
\* channel widths are consistent through the whole forward pass: bottleneck
\* in the deepest width and out twice that, every upsampling layer in twice
\* its level's width and out that width, concatenation twice the width,
\* FeatureBlock back to the width of the mirrored encoder level, head in the
\* first level's width.
C11_ChannelsConsistentAlways ==
    StrictlyIncreasing => ChannelsConsistent

\* C11 (amended): the same, for every list of feature widths in which each
\* width is twice the one before it (as in the default [64,128,256,512]).
C11_ChannelsConsistent ==
    (StrictlyIncreasing /\ Doubling) => ChannelsConsistent

\* a depth-4 pass that went through every decoder stage and the head
C11_Witness ==
    /\ upc = "Returned"
    /\ features = <<64, 128, 256, 512>>
    /\ Len(stages) = 4
    /\ \A k \in 1..4 : stages[k].cat[2] = 2 * features[5 - k]
    /\ x[2] = out_channels

(***************************************************************************)
(* Properties of check_model_compatibility                                 *)
(***************************************************************************)
\* the differences between the two records the call was given
ValueRangeDiff ==
    model_config0.tensor_value_range # run_config0.tensor_value_range
HeightWidthDiff ==
    \/ model_config0.img_shape[2] # run_config0.img_shape[2]
    \/ model_config0.img_shape[3] # run_config0.img_shape[3]

ExpectedPre ==
    (IF ValueRangeDiff
       THEN <<ScaleToModel(model_config0.tensor_value_range,
                           run_config0.tensor_value_range)>>
       ELSE <<>>)
    \o (IF HeightWidthDiff
          THEN <<ResizeTo(model_config0.img_shape[2], model_config0.img_shape[3])>>
          ELSE <<>>)
ExpectedPost ==
    (IF ValueRangeDiff
       THEN <<ScaleToTest(model_config0.tensor_value_range,
                          run_config0.tensor_value_range)>>
       ELSE <<>>)
    \o (IF HeightWidthDiff
          THEN <<ResizeTo(run_config0.img_shape[2], run_config0.img_shape[3])>>
          ELSE <<>>)

C9_ConfigsUnchanged ==
    /\ run_config = run_config0
    /\ model_config = model_config0

SameCallAsBefore ==
    /\ prev # <<>>
    /\ prev[1].run_config = run_config0
    /\ prev[1].model_config = model_config0
    /\ prev[1].strict_mode = strict_mode

\* C9 (amended): a call leaves the model configuration unchanged and
\* changes the run configuration only by replacing a context_frames or
\* pred_frames that is None with the model configuration's value; a call
\* given the same records and flag as the call before it has the same
\* outcome and pipelines.
C9_OnlyMissingFramesFilled ==
    calls > 0 =>
        /\ model_config = model_config0
        /\ \A f \in {"tensor_value_range", "use_actions", "action_size",
                     "img_shape"} : run_config[f] = run_config0[f]
        /\ \A f \in {"context_frames", "pred_frames"} :
              \/ run_config[f] = run_config0[f]
              \/ run_config0[f] = None /\ run_config[f] = model_config0[f]
        /\ outcome = "returned" =>
              run_config.context_frames # None /\ run_config.pred_frames # None
        /\ (cpc = "done" /\ SameCallAsBefore) =>
              /\ outcome = prev[1].outcome
              /\ outcome = "returned" =>
                    /\ model_preprocessing = prev[1].pre
                    /\ model_postprocessing = prev[1].post

\* a call that returned after filling in both missing fields
C9_Witness ==
    /\ cpc = "done"
    /\ outcome = "returned"
    /\ run_config0.context_frames = None
    /\ run_config0.pred_frames = None
    /\ run_config.context_frames = model_config.context_frames
    /\ run_config.pred_frames = model_config.pred_frames

====
